---- MODULE Spec2Model ----
(***************************************************************************)
(* pixelated-portfolio: the realtime comment stream (CommentsSection),     *)
(* the management surface (Admin, ProjectsManager / ArticlesManager) and   *)
(* the row-level policies of the store they talk to.                       *)
(*                                                                         *)
(* Every asynchronous handler is two actions: the call up to its `await`   *)
(* (the store evaluates the request there and the response is put in       *)
(* flight) and the continuation that runs when the response arrives.       *)
(* Responses of different requests may arrive in any order.                *)
(***************************************************************************)
EXTENDS Integers, Sequences, FiniteSets, TLC

VARIABLES
    \* ---- store (Postgres tables behind supabase) ----
    dbComments,       \* rows of public.comments
    dbRows,           \* rows of public.projects / public.articles, per table
    dbProfiles,       \* public.profiles: is_admin of every identity
    clock,            \* source of gen_random_uuid() / now()
    \* ---- CommentsSection ----
    streamMounted,    \* the component instance is alive
    streamInst,       \* which instance (mount count)
    articleId,        \* prop articleId
    comments,         \* useState<Comment[]>
    commentsLoading,  \* useState loading
    submitting,       \* useState submitting
    authorName,       \* useState authorName
    content,          \* useState content
    errors,           \* useState errors (set of field names that carry a message)
    streamToast,      \* last toast shown by handleSubmit
    channels,         \* open realtime channels, counted per article filter
    notifs,           \* INSERT events on their way to the subscriber
    commentFetches,   \* fetchComments() responses in flight
    commentInserts,   \* handleSubmit insert responses in flight
    \* ---- session and Admin page ----
    authLoading,      \* useAuth().loading
    user,             \* useAuth().user
    route,            \* current router location
    adminView,        \* what Admin rendered last
    \* ---- ProjectsManager / ArticlesManager ----
    tab,              \* which manager the Tabs show
    managerMounted,   \* a manager instance is alive
    projects,         \* useState projects / articles (the cache)
    managerLoading,   \* useState loading
    editingProject,   \* useState editingProject / editingArticle
    isCreating,       \* useState isCreating
    inflight,         \* responses of the manager's store calls in flight
    allOk,            \* no call of the mounted manager has failed so far
    \* ---- ProjectForm / ArticleForm ----
    formData,         \* useState formData
    formErrors,       \* useState errors (set of field names that carry a message)
    \* ---- Auth page ----
    email,            \* useState email
    password,         \* useState password
    isLogin,          \* useState isLogin
    authError,        \* useState error
    authFormLoading,  \* useState loading
    authCalls         \* signIn / signUp calls awaiting their answer

storeVars   == <<dbComments, dbRows, dbProfiles, clock>>
streamVars  == <<streamMounted, streamInst, articleId, comments, commentsLoading,
                 submitting, authorName, content, errors, streamToast,
                 channels, notifs, commentFetches, commentInserts>>
sessionVars == <<authLoading, user, route, adminView>>
managerVars == <<tab, managerMounted, projects, managerLoading, editingProject,
                 isCreating, inflight, allOk>>
formVars    == <<formData, formErrors>>
authVars    == <<email, password, isLogin, authError, authFormLoading, authCalls>>
vars == <<storeVars, streamVars, sessionVars, managerVars, formVars, authVars>>

----------------------------------------------------------------------------
\* Bounds of the model.
MaxComments == 2      \* comment rows the store may hold
MaxCache    == 2      \* cache length up to which a notification is redelivered
MaxFetches  == 1      \* responses in flight up to which "Atualizar" is clicked
MaxMounts   == 1      \* CommentsSection instances created in one run

MaxCreates  == 1      \* records the managers insert in one run
MaxInFlight == 2      \* manager calls awaiting their response at once

\* The articles an ArticlePage can show (ids of the seeded articles).
Articles == {1, 2}
NoArticle == 0

Tables == {"projects", "articles"}
Users == {"owner", "guest"}
NoUser == "nobody"
FirstId == 3          \* first id the store hands out (1 and 2 are seeded)

\* What a validated form hands to handleSave, as far as the store and the
\* managers look at it.
Drafts == {[sort_order |-> 0, is_published |-> FALSE]}

\* A string, as far as the schemas look at it: the length that survives
\* trim() and the number of leading/trailing blanks trim() removes.
Text(core, ws) == [core |-> core, ws |-> ws]
Empty == Text(0, 0)
Trim(s) == Text(s.core, 0)
Length(s) == s.core + s.ws

\* What the visitor types into the two inputs of a comment stream (the
\* empty inputs of a fresh form are the invalid case).
Inputs == {<<Text(2, 1), Text(5, 1)>>}

\* Strings around the limits of commentSchema, with and without a blank
\* that trim() removes.
NameTexts    == {Text(c, w) : c \in {0, 1, 2, 50, 51}, w \in {0, 1}}
ContentTexts == {Text(c, w) : c \in {0, 4, 5, 1000, 1001}, w \in {0, 1}}

\* What can be typed into the two inputs: maxLength={50} and
\* maxLength={1000} cut the text off.
TypedInputs ==
    {in \in NameTexts \X ContentTexts : Length(in[1]) <= 50 /\ Length(in[2]) <= 1000}

----------------------------------------------------------------------------
\* commentSchema, had author_name been checked without .trim()
AuthorNameOkRaw(s) == Length(s) >= 2 /\ Length(s) <= 50

\* commentSchema
AuthorNameOk(s) == Length(Trim(s)) >= 2 /\ Length(Trim(s)) <= 50
ContentOk(s)    == Length(Trim(s)) >= 5 /\ Length(Trim(s)) <= 1000

SchemaErrors(name, text) ==
    (IF AuthorNameOk(name) THEN {} ELSE {"author_name"})
        \cup (IF ContentOk(text) THEN {} ELSE {"content"})

\* The Comment a row is shown as. `via` is not a field of the program: it
\* records whether the object came from a select ("fetch") or from the
\* payload of an INSERT event ("live").
AsComment(row, via) ==
    [id |-> row.id, article_id |-> row.article_id,
     author_name |-> row.author_name, content |-> row.content,
     created_at |-> row.created_at, via |-> via]

\* .order('created_at', { ascending: false })
RECURSIVE OrderDesc(_)
OrderDesc(rows) ==
    IF rows = {} THEN <<>>
    ELSE LET top == CHOOSE r \in rows : \A o \in rows : o.created_at <= r.created_at
         IN <<AsComment(top, "fetch")>> \o OrderDesc(rows \ {top})

\* select ... from comments where article_id = a order by created_at desc
SelectComments(a) == OrderDesc({r \in dbComments : r.article_id = a})

\* The cache after the realtime INSERT callback.
MergeInsert(prev, newComment) == <<newComment>> \o prev

\* The cache after a fetchComments() response is applied: setComments(data)
\* unless the call threw.
ApplyFetch(prev, resp) == IF resp.ok THEN resp.data ELSE prev

\* supabase.channel(...).on(INSERT, filter article_id=eq.a).subscribe()
Subscribe(ch, a) == [ch EXCEPT ![a] = @ + 1]

\* supabase.removeChannel(channel)
RemoveChannelLeak(ch, a) == ch
RemoveChannel(ch, a) == [ch EXCEPT ![a] = IF @ > 0 THEN @ - 1 ELSE 0]

OpenChannels == channels[1] + channels[2]

\* The responses the store may give to the select of fetchComments() issued
\* by instance `inst` for article a: the rows, or an error.
FetchResponses(inst, a) ==
    {[inst |-> inst, article |-> a, ok |-> TRUE, data |-> SelectComments(a)],
     [inst |-> inst, article |-> a, ok |-> FALSE, data |-> <<>>]}

\* insert into comments: the new row, and the INSERT event the publication
\* sends to a channel whose filter matches.
NewCommentRow(a, name, text) ==
    [id |-> clock, article_id |-> a, author_name |-> name, content |-> text,
     created_at |-> clock]

EventsOf(ch, row) == IF ch[row.article_id] > 0 THEN {AsComment(row, "live")} ELSE {}

----------------------------------------------------------------------------
\* A row of projects / articles, as far as the managers and the policies
\* look at it.
Row(id, so, pub) == [id |-> id, sort_order |-> so, is_published |-> pub]
NoProject == Row(0, 0, FALSE)

InitStore(seed) ==
    /\ dbComments = {}
    /\ dbRows = [t \in Tables |-> seed]
    /\ dbProfiles = [u \in Users |-> [is_admin |-> (u = "owner")]]
    /\ clock = FirstId

InitStream ==
    /\ streamMounted = FALSE
    /\ streamInst = 0
    /\ articleId = NoArticle
    /\ comments = <<>>
    /\ commentsLoading = TRUE
    /\ submitting = FALSE
    /\ authorName = Empty
    /\ content = Empty
    /\ errors = {}
    /\ streamToast = "none"
    /\ channels = [a \in Articles |-> 0]
    /\ notifs = {}
    /\ commentFetches = {}
    /\ commentInserts = {}

----------------------------------------------------------------------------
\* CommentsSection is mounted for article a: initial state, then the effect
\* (fetchComments(), subscribe).
StreamMount(a) ==
    /\ ~streamMounted
    /\ streamInst < MaxMounts
    /\ streamMounted' = TRUE
    /\ streamInst' = streamInst + 1
    /\ articleId' = a
    /\ comments' = <<>>
    /\ commentsLoading' = TRUE
    /\ submitting' = FALSE
    /\ authorName' = Empty
    /\ content' = Empty
    /\ errors' = {}
    /\ streamToast' = "none"
    /\ \E resp \in FetchResponses(streamInst + 1, a) :
           commentFetches' = commentFetches \cup {resp}
    /\ channels' = Subscribe(channels, a)
    /\ UNCHANGED <<notifs, commentInserts, storeVars, sessionVars, managerVars>>
    /\ UNCHANGED <<formVars, authVars>>

\* ArticlePage hands the same instance another article.id: the effect's
\* cleanup runs with the old id, then the effect runs again with the new one.
ArticleIdChange(a) ==
    /\ streamMounted
    /\ a # articleId
    /\ Cardinality(commentFetches) <= MaxFetches
    /\ articleId' = a
    /\ \E resp \in FetchResponses(streamInst, a) :
           commentFetches' = commentFetches \cup {resp}
    /\ channels' = Subscribe(RemoveChannel(channels, articleId), a)
    /\ notifs' = {n \in notifs : RemoveChannel(channels, articleId)[n.article_id] > 0}
    /\ UNCHANGED <<streamMounted, streamInst, comments, commentsLoading, submitting,
                   authorName, content, errors, streamToast, commentInserts,
                   storeVars, sessionVars, managerVars>>
    /\ UNCHANGED <<formVars, authVars>>

\* The instance is unmounted: the effect's cleanup runs and the state of
\* the instance is gone.
StreamUnmount ==
    /\ streamMounted
    /\ streamMounted' = FALSE
    /\ channels' = RemoveChannel(channels, articleId)
    /\ notifs' = {n \in notifs : RemoveChannel(channels, articleId)[n.article_id] > 0}
    /\ articleId' = NoArticle
    /\ comments' = <<>>
    /\ commentsLoading' = TRUE
    /\ submitting' = FALSE
    /\ authorName' = Empty
    /\ content' = Empty
    /\ errors' = {}
    /\ streamToast' = "none"
    /\ UNCHANGED <<streamInst, commentFetches, commentInserts, storeVars,
                   sessionVars, managerVars>>
    /\ UNCHANGED <<formVars, authVars>>

\* The "Atualizar" button: fetchComments() up to its await.
FetchComments ==
    /\ streamMounted
    /\ Cardinality(commentFetches) < MaxFetches
    /\ \E resp \in FetchResponses(streamInst, articleId) :
           commentFetches' = commentFetches \cup {resp}
    /\ UNCHANGED <<streamMounted, streamInst, articleId, comments, commentsLoading,
                   submitting, authorName, content, errors, streamToast, channels,
                   notifs, commentInserts, storeVars, sessionVars, managerVars>>
    /\ UNCHANGED <<formVars, authVars>>

\* fetchComments() after its await. A state update of an instance that is
\* gone is dropped by React.
FetchCommentsResolve(resp) ==
    /\ resp \in commentFetches
    /\ commentFetches' = commentFetches \ {resp}
    /\ IF streamMounted /\ resp.inst = streamInst
       THEN /\ comments' = ApplyFetch(comments, resp)
            /\ commentsLoading' = FALSE
       ELSE UNCHANGED <<comments, commentsLoading>>
    /\ UNCHANGED <<streamMounted, streamInst, articleId, submitting, authorName,
                   content, errors, streamToast, channels, notifs, commentInserts,
                   storeVars, sessionVars, managerVars>>
    /\ UNCHANGED <<formVars, authVars>>

\* The realtime INSERT callback. Delivery is at-least-once: with `again` the
\* same event stays on its way and is delivered once more.
NotifDeliver(n, again) ==
    /\ n \in notifs
    /\ streamMounted
    /\ channels[n.article_id] > 0
    /\ again => Len(comments) < MaxCache
    /\ comments' = MergeInsert(comments, n)
    /\ notifs' = IF again THEN notifs ELSE notifs \ {n}
    /\ UNCHANGED <<streamMounted, streamInst, articleId, commentsLoading, submitting,
                   authorName, content, errors, streamToast, channels,
                   commentFetches, commentInserts, storeVars, sessionVars,
                   managerVars>>
    /\ UNCHANGED <<formVars, authVars>>

\* onChange of the two inputs.
SetInputs(name, text) ==
    /\ streamMounted
    /\ authorName' = name
    /\ content' = text
    /\ UNCHANGED <<streamMounted, streamInst, articleId, comments, commentsLoading,
                   submitting, errors, streamToast, channels, notifs,
                   commentFetches, commentInserts, storeVars, sessionVars,
                   managerVars>>
    /\ UNCHANGED <<formVars, authVars>>

\* The "Limpar" button.
ClearInputs ==
    /\ streamMounted
    /\ authorName' = Empty
    /\ content' = Empty
    /\ errors' = {}
    /\ UNCHANGED <<streamMounted, streamInst, articleId, comments, commentsLoading,
                   submitting, streamToast, channels, notifs, commentFetches,
                   commentInserts, storeVars, sessionVars, managerVars>>
    /\ UNCHANGED <<formVars, authVars>>

\* handleSubmit, had the validation branch not returned: the errors are
\* set and the insert is sent all the same.
HandleSubmitNoReturn ==
    /\ streamMounted
    /\ ~submitting
    /\ errors' = SchemaErrors(authorName, content)
    /\ submitting' = TRUE
    /\ \/ /\ Cardinality(dbComments) < MaxComments
          /\ LET row == NewCommentRow(articleId, Trim(authorName), Trim(content))
             IN /\ dbComments' = dbComments \cup {row}
                /\ notifs' = notifs \cup EventsOf(channels, row)
          /\ clock' = clock + 1
          /\ commentInserts' = commentInserts \cup
                                  {[inst |-> streamInst, ok |-> TRUE]}
       \/ /\ commentInserts' = commentInserts \cup
                                  {[inst |-> streamInst, ok |-> FALSE]}
          /\ UNCHANGED <<dbComments, clock, notifs>>
    /\ UNCHANGED <<streamMounted, streamInst, articleId, comments, commentsLoading,
                   authorName, content, streamToast, channels, commentFetches,
                   dbRows, dbProfiles, sessionVars, managerVars>>
    /\ UNCHANGED <<formVars, authVars>>

\* handleSubmit, had it also put the comment it sends into the cache.
HandleSubmitOptimistic ==
    /\ streamMounted
    /\ ~submitting
    /\ IF SchemaErrors(authorName, content) # {}
       THEN /\ errors' = SchemaErrors(authorName, content)
            /\ UNCHANGED <<submitting, commentInserts, dbComments, clock, notifs,
                           comments>>
       ELSE /\ errors' = {}
            /\ submitting' = TRUE
            /\ \/ /\ Cardinality(dbComments) < MaxComments
                  /\ LET row == NewCommentRow(articleId, Trim(authorName), Trim(content))
                     IN /\ dbComments' = dbComments \cup {row}
                        /\ notifs' = notifs \cup EventsOf(channels, row)
                        /\ comments' = <<AsComment(row, "live")>> \o comments
                  /\ clock' = clock + 1
                  /\ commentInserts' = commentInserts \cup
                                          {[inst |-> streamInst, ok |-> TRUE]}
               \/ /\ commentInserts' = commentInserts \cup
                                          {[inst |-> streamInst, ok |-> FALSE]}
                  /\ UNCHANGED <<dbComments, clock, notifs, comments>>
    /\ UNCHANGED <<streamMounted, streamInst, articleId, commentsLoading,
                   authorName, content, streamToast, channels, commentFetches,
                   dbRows, dbProfiles, sessionVars, managerVars>>
    /\ UNCHANGED <<formVars, authVars>>

\* handleSubmit up to its await (the submit button is disabled while
\* submitting). The insert either fails or adds the row, which the
\* publication announces to a matching channel.
HandleSubmit ==
    /\ streamMounted
    /\ ~submitting
    /\ IF SchemaErrors(authorName, content) # {}
       THEN /\ errors' = SchemaErrors(authorName, content)
            /\ UNCHANGED <<submitting, commentInserts, dbComments, clock, notifs>>
       ELSE /\ errors' = {}
            /\ submitting' = TRUE
            /\ \/ /\ Cardinality(dbComments) < MaxComments
                  /\ LET row == NewCommentRow(articleId, Trim(authorName), Trim(content))
                     IN /\ dbComments' = dbComments \cup {row}
                        /\ notifs' = notifs \cup EventsOf(channels, row)
                  /\ clock' = clock + 1
                  /\ commentInserts' = commentInserts \cup
                                          {[inst |-> streamInst, ok |-> TRUE]}
               \/ /\ commentInserts' = commentInserts \cup
                                          {[inst |-> streamInst, ok |-> FALSE]}
                  /\ UNCHANGED <<dbComments, clock, notifs>>
    /\ UNCHANGED <<streamMounted, streamInst, articleId, comments, commentsLoading,
                   authorName, content, streamToast, channels, commentFetches,
                   dbRows, dbProfiles, sessionVars, managerVars>>
    /\ UNCHANGED <<formVars, authVars>>

\* handleSubmit after its await, had the inputs been cleared in `finally`.
HandleSubmitResolveClears(resp) ==
    /\ resp \in commentInserts
    /\ commentInserts' = commentInserts \ {resp}
    /\ IF streamMounted /\ resp.inst = streamInst
       THEN /\ authorName' = Empty
            /\ content' = Empty
            /\ streamToast' = IF resp.ok THEN "sent" ELSE "error"
            /\ submitting' = FALSE
       ELSE UNCHANGED <<authorName, content, streamToast, submitting>>
    /\ UNCHANGED <<streamMounted, streamInst, articleId, comments, commentsLoading,
                   errors, channels, notifs, commentFetches, storeVars,
                   sessionVars, managerVars>>
    /\ UNCHANGED <<formVars, authVars>>

\* handleSubmit after its await.
HandleSubmitResolve(resp) ==
    /\ resp \in commentInserts
    /\ commentInserts' = commentInserts \ {resp}
    /\ IF streamMounted /\ resp.inst = streamInst
       THEN /\ authorName' = IF resp.ok THEN Empty ELSE authorName
            /\ content' = IF resp.ok THEN Empty ELSE content
            /\ streamToast' = IF resp.ok THEN "sent" ELSE "error"
            /\ submitting' = FALSE
       ELSE UNCHANGED <<authorName, content, streamToast, submitting>>
    /\ UNCHANGED <<streamMounted, streamInst, articleId, comments, commentsLoading,
                   errors, channels, notifs, commentFetches, storeVars,
                   sessionVars, managerVars>>
    /\ UNCHANGED <<formVars, authVars>>

\* Another visitor's page inserts a comment for article a.
VisitorInsert(a) ==
    /\ Cardinality(dbComments) < MaxComments
    /\ LET row == NewCommentRow(a, Text(2, 0), Text(5, 0))
       IN /\ dbComments' = dbComments \cup {row}
          /\ notifs' = notifs \cup EventsOf(channels, row)
    /\ clock' = clock + 1
    /\ UNCHANGED <<dbRows, dbProfiles, streamMounted, streamInst, articleId, comments,
                   commentsLoading, submitting, authorName, content, errors,
                   streamToast, channels, commentFetches, commentInserts,
                   sessionVars, managerVars>>
    /\ UNCHANGED <<formVars, authVars>>

----------------------------------------------------------------------------
\* Row-level policies of projects and articles. auth.uid() of a request
\* without a session is NULL and matches no profile.
IsAdmin(uid) == uid \in DOMAIN dbProfiles /\ dbProfiles[uid].is_admin

\* The policies, had "Anyone can view published ..." been created without
\* FOR SELECT (a policy is FOR ALL then).
PermitsPublishedForAll(cmd, uid, row) ==
    \/ row.is_published
    \/ IsAdmin(uid)

\* Permissive policies are OR-ed: "Anyone can view published ..." (FOR
\* SELECT) and "Admins can do everything with ..." (FOR ALL; its USING
\* expression is also the WITH CHECK of inserted and updated rows).
Permits(cmd, uid, row) ==
    \/ cmd = "SELECT" /\ row.is_published
    \/ IsAdmin(uid)

Visible(t, uid) == {r \in dbRows[t] : Permits("SELECT", uid, r)}

\* select('*') without .order(): the rows in any order.
Unordered(rows) ==
    {s \in [1..Cardinality(rows) -> rows] :
        \A i, j \in DOMAIN s : i # j => s[i] # s[j]}

\* .order('sort_order', { ascending: true }): rows of equal sort_order come
\* in an order the store does not fix.
Ordered(rows) ==
    {s \in [1..Cardinality(rows) -> rows] :
        /\ \A i, j \in DOMAIN s : i # j => s[i] # s[j]
        /\ \A i, j \in DOMAIN s : i < j => s[i].sort_order <= s[j].sort_order}

\* projects.filter(p => p.id !== id)
Without(list, id) == SelectSeq(list, LAMBDA p : p.id # id)

Ids(list) == {list[i].id : i \in DOMAIN list}

Resp(op, ok, uid, data, id, snap) ==
    [op |-> op, ok |-> ok, uid |-> uid, data |-> data, id |-> id, snap |-> snap]

\* The responses the store may give to select('*').order('sort_order')
\* on table t for the identity uid: the visible rows, or an error.
ListResponses(t, uid) ==
    {Resp("list", TRUE, uid, s, 0, <<>>) : s \in Ordered(Visible(t, uid))}
        \cup {Resp("list", FALSE, uid, <<>>, 0, <<>>)}

\* The same responses for the fetchProjects() that handleSave calls. `id`
\* is not part of the program: it records which insert the refresh follows
\* (0 after an update).
RefreshResponses(t, uid, id) == {[r EXCEPT !.id = id] : r \in ListResponses(t, uid)}

\* delete().eq('id', id): the table afterwards. A row the policies hide from
\* the identity is skipped without an error.
AfterDelete(t, uid, id) ==
    {r \in dbRows[t] : ~(r.id = id /\ Permits("DELETE", uid, r))}

\* update(project) without .eq('id', id): every row the policies give.
AfterUpdateAll(t, uid, id, data) ==
    {IF Permits("UPDATE", uid, r)
        THEN Row(r.id, data.sort_order, data.is_published) ELSE r : r \in dbRows[t]}

\* update(project).eq('id', id): the table afterwards, same rule.
AfterUpdate(t, uid, id, data) ==
    {IF r.id = id /\ Permits("UPDATE", uid, r)
        THEN Row(r.id, data.sort_order, data.is_published) ELSE r : r \in dbRows[t]}

\* The comments after a delete, had the reference been declared without
\* ON DELETE CASCADE and unchecked.
CascadeCommentsNone(t, rowsAfter) == dbComments

\* articles.id is referenced by comments.article_id ON DELETE CASCADE.
CascadeComments(t, rowsAfter) ==
    IF t = "articles"
    THEN {c \in dbComments : \E r \in rowsAfter : r.id = c.article_id}
    ELSE dbComments

----------------------------------------------------------------------------
InitSession(r) ==
    /\ authLoading = TRUE
    /\ user = NoUser
    /\ route = r
    /\ adminView = IF r = "/admin" THEN "loading" ELSE "none"

\* No entity form is open.
NoForm == [kind |-> "none"]

InitEntryForm ==
    /\ formData = NoForm
    /\ formErrors = {}

\* The Auth page as it is first rendered.
InitAuthForm ==
    /\ email = "" /\ password = 0
    /\ isLogin = TRUE
    /\ authError = "none"
    /\ authFormLoading = FALSE
    /\ authCalls = {}

InitManager ==
    /\ tab = "projects"
    /\ managerMounted = FALSE
    /\ projects = <<>>
    /\ managerLoading = TRUE
    /\ editingProject = NoProject
    /\ isCreating = FALSE
    /\ inflight = {}
    /\ allOk = TRUE

\* What Admin returns, had the access check been left in: the panel for an
\* administrator only.
AdminRenderStrict(loading, u) ==
    IF loading THEN "loading" ELSE IF IsAdmin(u) THEN "panel" ELSE "denied"

\* What Admin returns: the loading window while the session is being
\* checked, the panel with the Tabs otherwise.
AdminRender(loading, u) == IF loading THEN "loading" ELSE "panel"

\* The redirect effect of Admin: navigate('/auth').
AdminRedirects(loading, u) == ~loading /\ u = NoUser

\* The list view of a manager is on screen (neither the loading window nor
\* the form).
ListView == managerMounted /\ ~managerLoading /\ ~isCreating /\ editingProject = NoProject
FormView == managerMounted /\ ~managerLoading /\ (isCreating \/ editingProject # NoProject)

\* A manager is mounted on table t: initial state, then the effect
\* (fetchProjects() / fetchArticles() up to its await).
MountManager(t, u) ==
    /\ tab' = t
    /\ managerMounted' = TRUE
    /\ projects' = <<>>
    /\ managerLoading' = TRUE
    /\ editingProject' = NoProject
    /\ isCreating' = FALSE
    /\ \E resp \in ListResponses(t, u) : inflight' = {resp}
    /\ allOk' = TRUE

\* The session check of useAuth() completes with identity u (or none).
\* Admin renders again and its effects run, those of the children first.
AuthResolve(u) ==
    /\ authLoading
    /\ route = "/admin"
    /\ authLoading' = FALSE
    /\ user' = u
    /\ adminView' = AdminRender(FALSE, u)
    /\ IF AdminRender(FALSE, u) = "panel"
       THEN MountManager("projects", u)
       ELSE UNCHANGED managerVars
    /\ route' = IF AdminRedirects(FALSE, u) THEN "/auth" ELSE route
    /\ UNCHANGED <<storeVars, streamVars>>
    /\ UNCHANGED <<formVars, authVars>>

\* The router renders the new location: Admin and its manager are unmounted.
\* Responses addressed to the manager that is gone change nothing.
RouteRender ==
    /\ route # "/admin"
    /\ adminView # "none"
    /\ adminView' = "none"
    /\ managerMounted' = FALSE
    /\ inflight' = {}
    /\ UNCHANGED <<authLoading, user, route, tab, projects, managerLoading,
                   editingProject, isCreating, allOk, storeVars,
                   streamVars>>
    /\ UNCHANGED <<formVars, authVars>>

\* The other tab is selected: its manager replaces the current one.
TabSwitch(t) ==
    /\ route = "/admin"
    /\ adminView = "panel"
    /\ t # tab
    /\ MountManager(t, user)
    /\ UNCHANGED <<sessionVars, storeVars, streamVars>>
    /\ UNCHANGED <<formVars, authVars>>

\* "Novo Projeto" / "Novo Artigo".
NewClick ==
    /\ route = "/admin" /\ ListView
    /\ isCreating' = TRUE
    /\ UNCHANGED <<tab, managerMounted, projects, managerLoading, editingProject,
                   inflight, allOk, sessionVars, storeVars, streamVars>>
    /\ UNCHANGED <<formVars, authVars>>

\* "Editar" on a listed record.
EditClick(p) ==
    /\ route = "/admin" /\ ListView
    /\ p \in {projects[i] : i \in DOMAIN projects}
    /\ editingProject' = p
    /\ UNCHANGED <<tab, managerMounted, projects, managerLoading, isCreating,
                   inflight, allOk, sessionVars, storeVars, streamVars>>
    /\ UNCHANGED <<formVars, authVars>>

\* onCancel of the form.
CancelForm ==
    /\ route = "/admin" /\ FormView
    /\ editingProject' = NoProject
    /\ isCreating' = FALSE
    /\ UNCHANGED <<tab, managerMounted, projects, managerLoading, inflight,
                   allOk, sessionVars, storeVars, streamVars>>
    /\ UNCHANGED <<formVars, authVars>>

\* "Atualizar": fetchProjects() up to its await.
FetchProjects ==
    /\ route = "/admin" /\ ListView
    /\ Cardinality(inflight) < MaxInFlight
    /\ \E resp \in ListResponses(tab, user) : inflight' = inflight \cup {resp}
    /\ UNCHANGED <<tab, managerMounted, projects, managerLoading, editingProject,
                   isCreating, allOk, sessionVars, storeVars, streamVars>>
    /\ UNCHANGED <<formVars, authVars>>

\* fetchProjects() after its await, had it not thrown on `error` (data is
\* null then, and `data || []` empties the cache).
FetchProjectsResolveNoThrow(resp) ==
    /\ resp \in inflight /\ resp.op = "list"
    /\ managerMounted
    /\ inflight' = inflight \ {resp}
    /\ projects' = resp.data
    /\ managerLoading' = FALSE
    /\ allOk' = (allOk /\ resp.ok)
    /\ UNCHANGED <<tab, managerMounted, editingProject, isCreating,
                   sessionVars, storeVars, streamVars>>
    /\ UNCHANGED <<formVars, authVars>>

\* fetchProjects() after its await.
FetchProjectsResolve(resp) ==
    /\ resp \in inflight /\ resp.op = "list"
    /\ managerMounted
    /\ inflight' = inflight \ {resp}
    /\ projects' = IF resp.ok THEN resp.data ELSE projects
    /\ managerLoading' = FALSE
    /\ allOk' = (allOk /\ resp.ok)
    /\ UNCHANGED <<tab, managerMounted, editingProject, isCreating,
                   sessionVars, storeVars, streamVars>>
    /\ UNCHANGED <<formVars, authVars>>

\* handleDelete(id), had it not asked for the confirmation.
HandleDeleteNoConfirm(id, confirmed) ==
    /\ route = "/admin" /\ ListView
    /\ id \in Ids(projects)
    /\ Cardinality(inflight) < MaxInFlight
    /\ \/ /\ dbRows' = [dbRows EXCEPT ![tab] = AfterDelete(tab, user, id)]
          /\ dbComments' = CascadeComments(tab, AfterDelete(tab, user, id))
          /\ inflight' = inflight \cup {Resp("delete", TRUE, user, <<>>, id, projects)}
       \/ /\ inflight' = inflight \cup {Resp("delete", FALSE, user, <<>>, id, projects)}
          /\ UNCHANGED <<dbRows, dbComments>>
    /\ UNCHANGED <<tab, managerMounted, projects, managerLoading, editingProject,
                   isCreating, allOk, dbProfiles, clock, sessionVars,
                   streamVars>>
    /\ UNCHANGED <<formVars, authVars>>

\* handleDelete(id) up to its await: confirm(), then the delete. The
\* continuation keeps the `projects` of the render the handler belongs to.
HandleDelete(id, confirmed) ==
    /\ route = "/admin" /\ ListView
    /\ id \in Ids(projects)
    /\ Cardinality(inflight) < MaxInFlight
    /\ IF ~confirmed
       THEN UNCHANGED <<inflight, dbRows, dbComments>>
       ELSE \/ /\ dbRows' = [dbRows EXCEPT ![tab] = AfterDelete(tab, user, id)]
               /\ dbComments' = CascadeComments(tab, AfterDelete(tab, user, id))
               /\ inflight' = inflight \cup {Resp("delete", TRUE, user, <<>>, id, projects)}
            \/ /\ inflight' = inflight \cup {Resp("delete", FALSE, user, <<>>, id, projects)}
               /\ UNCHANGED <<dbRows, dbComments>>
    /\ UNCHANGED <<tab, managerMounted, projects, managerLoading, editingProject,
                   isCreating, allOk, dbProfiles, clock, sessionVars,
                   streamVars>>
    /\ UNCHANGED <<formVars, authVars>>

\* handleDelete(id) after its await.
HandleDeleteResolve(resp) ==
    /\ resp \in inflight /\ resp.op = "delete"
    /\ managerMounted
    /\ inflight' = inflight \ {resp}
    /\ projects' = IF resp.ok THEN Without(resp.snap, resp.id) ELSE projects
    /\ allOk' = (allOk /\ resp.ok)
    /\ UNCHANGED <<tab, managerMounted, managerLoading, editingProject, isCreating,
                   sessionVars, storeVars, streamVars>>
    /\ UNCHANGED <<formVars, authVars>>

\* handleSave(project) up to its await: an update of the record opened for
\* editing, or an insert. An insert the policies refuse is an error; an
\* update of a row they hide changes nothing and is no error. The response
\* of an insert is marked with the id the store gave the row; every call
\* carries the record it sent.
HandleSave(data) ==
    /\ route = "/admin" /\ FormView
    /\ Cardinality(inflight) < MaxInFlight
    /\ \/ /\ editingProject # NoProject
          /\ dbRows' = [dbRows EXCEPT
                          ![tab] = AfterUpdate(tab, user, editingProject.id, data)]
          /\ inflight' = inflight \cup {Resp("save", TRUE, user, <<data>>, 0, <<>>)}
          /\ UNCHANGED clock
       \/ /\ editingProject = NoProject
          /\ clock < FirstId + MaxCreates
          /\ Permits("INSERT", user, Row(clock, data.sort_order, data.is_published))
          /\ dbRows' = [dbRows EXCEPT
                          ![tab] = @ \cup {Row(clock, data.sort_order, data.is_published)}]
          /\ clock' = clock + 1
          /\ inflight' = inflight \cup {Resp("save", TRUE, user, <<data>>, clock, <<>>)}
       \/ /\ inflight' = inflight \cup {Resp("save", FALSE, user, <<data>>, 0, <<>>)}
          /\ UNCHANGED <<dbRows, clock>>
    /\ UNCHANGED <<tab, managerMounted, projects, managerLoading, editingProject,
                   isCreating, allOk, dbComments, dbProfiles,
                   sessionVars, streamVars>>
    /\ UNCHANGED <<formVars, authVars>>

\* handleSave(project) after its await, had it not called fetchProjects().
HandleSaveResolveNoRefresh(resp) ==
    /\ resp \in inflight /\ resp.op = "save"
    /\ managerMounted
    /\ inflight' = inflight \ {resp}
    /\ IF resp.ok
       THEN /\ editingProject' = NoProject
            /\ isCreating' = FALSE
       ELSE UNCHANGED <<editingProject, isCreating>>
    /\ allOk' = (allOk /\ resp.ok)
    /\ UNCHANGED <<tab, managerMounted, projects, managerLoading,
                   sessionVars, storeVars, streamVars>>
    /\ UNCHANGED <<formVars, authVars>>

\* handleSave(project) after its await: on success the form is closed and
\* fetchProjects() is called (up to its await).
HandleSaveResolve(resp) ==
    /\ resp \in inflight /\ resp.op = "save"
    /\ managerMounted
    /\ IF resp.ok
       THEN /\ editingProject' = NoProject
            /\ isCreating' = FALSE
            /\ \E next \in RefreshResponses(tab, user, resp.id) :
                   inflight' = (inflight \ {resp}) \cup {next}
       ELSE /\ inflight' = inflight \ {resp}
            /\ UNCHANGED <<editingProject, isCreating>>
    /\ allOk' = (allOk /\ resp.ok)
    /\ UNCHANGED <<tab, managerMounted, projects, managerLoading,
                   sessionVars, storeVars, streamVars>>
    /\ UNCHANGED <<formVars, authVars>>

----------------------------------------------------------------------------
\* The comment stream of an article page.
InitStreamPage ==
    /\ InitStore({Row(1, 0, TRUE), Row(2, 1, TRUE)})
    /\ InitStream
    /\ InitSession("/artigo")
    /\ InitManager
    /\ InitEntryForm
    /\ InitAuthForm

NextStream ==
    \/ \E a \in Articles : StreamMount(a)
    \/ \E a \in Articles : ArticleIdChange(a)
    \/ StreamUnmount
    \/ FetchComments
    \/ \E resp \in commentFetches : FetchCommentsResolve(resp)
    \/ \E n \in notifs, again \in BOOLEAN : NotifDeliver(n, again)
    \/ \E in \in Inputs : SetInputs(in[1], in[2])
    \/ ClearInputs
    \/ HandleSubmit
    \/ \E resp \in commentInserts : HandleSubmitResolve(resp)
    \/ \E a \in Articles : VisitorInsert(a)

SpecStream == InitStreamPage /\ [][NextStream]_vars

\* The comment form of a stream that is mounted on article 1 and has shown
\* its (empty) list: typing, "Limpar", submitting. Notifications of the
\* inserts stay on their way.
InitForm ==
    /\ InitStore({Row(1, 0, TRUE), Row(2, 1, TRUE)})
    /\ streamMounted = TRUE
    /\ streamInst = 1
    /\ articleId = 1
    /\ comments = <<>>
    /\ commentsLoading = FALSE
    /\ submitting = FALSE
    /\ authorName = Empty
    /\ content = Empty
    /\ errors = {}
    /\ streamToast = "none"
    /\ channels = Subscribe([a \in Articles |-> 0], 1)
    /\ notifs = {}
    /\ commentFetches = {}
    /\ commentInserts = {}
    /\ InitSession("/artigo")
    /\ InitManager
    /\ InitEntryForm
    /\ InitAuthForm

NextForm ==
    \/ \E in \in TypedInputs : SetInputs(in[1], in[2])
    \/ ClearInputs
    \/ HandleSubmit
    \/ \E resp \in commentInserts : HandleSubmitResolve(resp)

SpecForm == InitForm /\ [][NextForm]_vars

\* commentSchema on its own: the form holds any two strings (a value is
\* not cut by maxLength unless it is typed) and is submitted.
InitSchema ==
    /\ InitStore({Row(1, 0, TRUE), Row(2, 1, TRUE)})
    /\ streamMounted = TRUE
    /\ streamInst = 1
    /\ articleId = 1
    /\ comments = <<>>
    /\ commentsLoading = FALSE
    /\ submitting = FALSE
    /\ authorName \in NameTexts
    /\ content \in ContentTexts
    /\ errors = {}
    /\ streamToast = "none"
    /\ channels = Subscribe([a \in Articles |-> 0], 1)
    /\ notifs = {}
    /\ commentFetches = {}
    /\ commentInserts = {}
    /\ InitSession("/artigo")
    /\ InitManager
    /\ InitEntryForm
    /\ InitAuthForm

NextSchema ==
    \/ HandleSubmit
    \/ \E resp \in commentInserts : HandleSubmitResolve(resp)

SpecSchema == InitSchema /\ [][NextSchema]_vars

\* The Admin page from the moment it is rendered: the session check, the
\* redirect, the Tabs and the list fetch of the manager they mount.
InitGate ==
    /\ InitStore({Row(1, 1, TRUE), Row(2, 1, FALSE)})
    /\ InitStream
    /\ InitSession("/admin")
    /\ InitManager
    /\ InitEntryForm
    /\ InitAuthForm

NextGate ==
    \/ \E u \in Users \cup {NoUser} : AuthResolve(u)
    \/ RouteRender
    \/ \E t \in Tables : TabSwitch(t)
    \/ \E resp \in inflight : FetchProjectsResolve(resp)
    \/ FetchProjects
    \/ NewClick
    \/ \E i \in DOMAIN projects : EditClick(projects[i])
    \/ CancelForm

SpecGate == InitGate /\ [][NextGate]_vars

\* One manager (ProjectsManager or ArticlesManager) from the moment the
\* panel mounts it for the identity u.
InitManaging ==
    /\ InitStore({Row(1, 1, TRUE)})
    /\ InitStream
    /\ authLoading = FALSE
    /\ user \in Users
    /\ route = "/admin"
    /\ adminView = AdminRender(FALSE, user)
    /\ tab \in Tables
    /\ managerMounted = TRUE
    /\ projects = <<>>
    /\ managerLoading = TRUE
    /\ editingProject = NoProject
    /\ isCreating = FALSE
    /\ \E resp \in ListResponses(tab, user) : inflight = {resp}
    /\ allOk = TRUE
    /\ InitEntryForm
    /\ InitAuthForm

NextManager ==
    \/ NewClick
    \/ \E i \in DOMAIN projects : EditClick(projects[i])
    \/ CancelForm
    \/ FetchProjects
    \/ \E resp \in inflight : FetchProjectsResolve(resp)
    \/ \E id \in Ids(projects), confirmed \in BOOLEAN : HandleDelete(id, confirmed)
    \/ \E resp \in inflight : HandleDeleteResolve(resp)
    \/ \E data \in Drafts : HandleSave(data)
    \/ \E resp \in inflight : HandleSaveResolve(resp)

SpecManager == InitManaging /\ [][NextManager]_vars

\* The store on its own: any identity sends any request on projects and
\* articles; `inflight` holds the answer to the last one.
StoreSelect(t, uid) ==
    /\ \E resp \in ListResponses(t, uid) : inflight' = {resp}
    /\ UNCHANGED <<storeVars, streamVars, sessionVars, tab, managerMounted,
                   projects, managerLoading, editingProject, isCreating, allOk>>
    /\ UNCHANGED <<formVars, authVars>>

StoreInsert(t, uid, data) ==
    /\ clock < FirstId + MaxCreates
    /\ IF Permits("INSERT", uid, Row(clock, data.sort_order, data.is_published))
       THEN /\ dbRows' = [dbRows EXCEPT
                            ![t] = @ \cup {Row(clock, data.sort_order, data.is_published)}]
            /\ clock' = clock + 1
            /\ inflight' = {Resp("save", TRUE, uid, <<>>, clock, <<>>)}
       ELSE /\ inflight' = {Resp("save", FALSE, uid, <<>>, clock, <<>>)}
            /\ UNCHANGED <<dbRows, clock>>
    /\ UNCHANGED <<dbComments, dbProfiles, streamVars, sessionVars, tab,
                   managerMounted, projects, managerLoading, editingProject,
                   isCreating, allOk>>
    /\ UNCHANGED <<formVars, authVars>>

StoreUpdate(t, uid, id, data) ==
    /\ dbRows' = [dbRows EXCEPT ![t] = AfterUpdate(t, uid, id, data)]
    /\ inflight' = {Resp("save", TRUE, uid, <<>>, id, <<>>)}
    /\ UNCHANGED <<dbComments, dbProfiles, clock, streamVars, sessionVars, tab,
                   managerMounted, projects, managerLoading, editingProject,
                   isCreating, allOk>>
    /\ UNCHANGED <<formVars, authVars>>

StoreDelete(t, uid, id) ==
    /\ dbRows' = [dbRows EXCEPT ![t] = AfterDelete(t, uid, id)]
    /\ dbComments' = CascadeComments(t, AfterDelete(t, uid, id))
    /\ inflight' = {Resp("delete", TRUE, uid, <<>>, id, <<>>)}
    /\ UNCHANGED <<dbProfiles, clock, streamVars, sessionVars, tab,
                   managerMounted, projects, managerLoading, editingProject,
                   isCreating, allOk>>
    /\ UNCHANGED <<formVars, authVars>>

InitStoreOnly ==
    /\ InitStore({Row(1, 1, TRUE), Row(2, 1, FALSE)})
    /\ InitStream
    /\ InitSession("/")
    /\ InitManager
    /\ InitEntryForm
    /\ InitAuthForm

NextStore ==
    \/ \E t \in Tables, uid \in Users \cup {NoUser} : StoreSelect(t, uid)
    \/ \E t \in Tables, uid \in Users \cup {NoUser}, data \in Drafts :
          StoreInsert(t, uid, data)
    \/ \E t \in Tables, uid \in Users \cup {NoUser}, data \in Drafts :
          \E r \in dbRows[t] : StoreUpdate(t, uid, r.id, data)
    \/ \E t \in Tables, uid \in Users \cup {NoUser} :
          \E r \in dbRows[t] : StoreDelete(t, uid, r.id)

SpecStore == InitStoreOnly /\ [][NextStore]_vars

----------------------------------------------------------------------------
\* Row-level policies of comments, had "Admins can delete comments" been
\* created with USING (true).
PermitsCommentDeleteAll(cmd, uid, row) == cmd \in {"SELECT", "INSERT", "DELETE"}

\* The same policies, had the administrators' policy been created FOR ALL
\* (as the ones of projects and articles are).
PermitsCommentAdminAll(cmd, uid, row) ==
    \/ cmd \in {"SELECT", "INSERT"}
    \/ IsAdmin(uid)

\* Row-level policies of comments: "Anyone can view comments" (FOR SELECT
\* USING true), "Anyone can create comments" (FOR INSERT WITH CHECK true),
\* "Admins can delete comments" (FOR DELETE). No policy is FOR UPDATE, and
\* with row level security enabled a command without a policy gets no row.
PermitsComment(cmd, uid, row) ==
    \/ cmd \in {"SELECT", "INSERT"}
    \/ cmd = "DELETE" /\ IsAdmin(uid)

\* The store on its own, comments: any identity sends any request;
\* `inflight` holds the answer to the last one.
CommentSelect(uid, a) ==
    /\ inflight' = {Resp("select", TRUE, uid,
                          OrderDesc({r \in dbComments :
                                        r.article_id = a /\ PermitsComment("SELECT", uid, r)}),
                          a, <<>>)}
    /\ UNCHANGED <<storeVars, streamVars, sessionVars, tab, managerMounted,
                   projects, managerLoading, editingProject, isCreating, allOk>>
    /\ UNCHANGED <<formVars, authVars>>

\* comments.article_id REFERENCES articles(id): the article of a new comment
\* has to be there.
ArticleExists(a) == \E x \in dbRows["articles"] : x.id = a


\* insert into comments: refused by the policies or, for an article that is
\* not there, by the foreign key.
CommentInsert(uid, a, name, text) ==
    /\ clock < FirstId + MaxComments
    /\ IF PermitsComment("INSERT", uid, NewCommentRow(a, name, text))
          /\ ArticleExists(a)
       THEN /\ dbComments' = dbComments \cup {NewCommentRow(a, name, text)}
            /\ clock' = clock + 1
            /\ inflight' = {Resp("insert", TRUE, uid, <<a>>, clock, <<>>)}
       ELSE /\ inflight' = {Resp("insert", FALSE, uid, <<a>>, clock, <<>>)}
            /\ UNCHANGED <<dbComments, clock>>
    /\ UNCHANGED <<dbRows, dbProfiles, streamVars, sessionVars, tab,
                   managerMounted, projects, managerLoading, editingProject,
                   isCreating, allOk>>
    /\ UNCHANGED <<formVars, authVars>>

\* update comments set content = text where id = id: rows the policies do
\* not give to the command are skipped without an error.
CommentUpdate(uid, id, text) ==
    /\ dbComments' = {IF r.id = id /\ PermitsComment("UPDATE", uid, r)
                         THEN [r EXCEPT !.content = text] ELSE r : r \in dbComments}
    /\ inflight' = {Resp("update", TRUE, uid, <<>>, id, <<>>)}
    /\ UNCHANGED <<dbRows, dbProfiles, clock, streamVars, sessionVars, tab,
                   managerMounted, projects, managerLoading, editingProject,
                   isCreating, allOk>>
    /\ UNCHANGED <<formVars, authVars>>

\* delete from comments where id = id, same rule.
CommentDelete(uid, id) ==
    /\ dbComments' = {r \in dbComments : ~(r.id = id /\ PermitsComment("DELETE", uid, r))}
    /\ inflight' = {Resp("delete", TRUE, uid, <<>>, id, <<>>)}
    /\ UNCHANGED <<dbRows, dbProfiles, clock, streamVars, sessionVars, tab,
                   managerMounted, projects, managerLoading, editingProject,
                   isCreating, allOk>>
    /\ UNCHANGED <<formVars, authVars>>

InitCommentStore ==
    /\ InitStore({Row(1, 0, TRUE), Row(2, 1, TRUE)})
    /\ InitStream
    /\ InitSession("/")
    /\ InitManager
    /\ InitEntryForm
    /\ InitAuthForm

NextCommentStore ==
    \/ \E uid \in Users \cup {NoUser}, a \in Articles : CommentSelect(uid, a)
    \/ \E uid \in Users \cup {NoUser}, a \in Articles :
          CommentInsert(uid, a, Text(2, 0), Text(5, 0))
    \/ \E uid \in Users \cup {NoUser} :
          \E r \in dbComments : CommentUpdate(uid, r.id, Text(1000, 0))
    \/ \E uid \in Users \cup {NoUser} :
          \E r \in dbComments : CommentDelete(uid, r.id)
    \/ \E uid \in Users \cup {NoUser} :
          \E r \in dbRows["articles"] : StoreDelete("articles", uid, r.id)

SpecCommentStore == InitCommentStore /\ [][NextCommentStore]_vars

----------------------------------------------------------------------------
\* Properties.

\* C1 (SpecStream): whatever insert notifications are delivered, each
\* possibly more than once, the comment cache never holds two entries with
\* the same comment id.
C1_NoDuplicateIds == \A i, j \in DOMAIN comments : i # j => comments[i].id # comments[j].id

\* C2 (SpecStream): a comment id delivered by a fetchComments() response and
\* by a live notification has one entry in the cache once both are applied:
\* no id is in the cache both as a fetched and as a notified entry.
C2_OneEntryAcrossPaths ==
    \A i, j \in DOMAIN comments :
        (comments[i].via = "live" /\ comments[j].via = "fetch")
            => comments[i].id # comments[j].id

\* C3 (SpecGate): once the session has resolved to no identity, the redirect
\* to the sign-in page is emitted and no manager has been started: none is
\* mounted and no list fetch is in flight.
C3_UnauthenticatedNoFetch ==
    (~authLoading /\ user = NoUser)
        => /\ route = "/auth"
           /\ ~managerMounted
           /\ \A r \in inflight : r.op # "list"

\* C4 (SpecStore): a step that changes projects or articles is the request of
\* an identity whose profile has is_admin = true, and the answer to a select
\* holds an unpublished row only for such an identity; every other identity
\* is answered with exactly the published rows.
ProfileIsAdmin(uid) == uid \in Users /\ dbProfiles[uid].is_admin

C4_ReadsFollowPolicy ==
    \A r \in inflight : (r.op = "list" /\ r.ok /\ ~ProfileIsAdmin(r.uid)) =>
        /\ \A i \in DOMAIN r.data : r.data[i].is_published
        /\ \E t \in Tables :
              {r.data[i] : i \in DOMAIN r.data} = {x \in dbRows[t] : x.is_published}

C4_WritesFollowPolicy == dbRows' # dbRows => \E r \in inflight' : ProfileIsAdmin(r.uid)

C4_StoreAccessPolicy == [](C4_ReadsFollowPolicy) /\ [][C4_WritesFollowPolicy]_vars

\* A request of a non-administrator was turned down: a delete that left
\* the row in place, while the table also holds an unpublished row.
C4_Witness ==
    \E r \in inflight, t \in Tables :
        /\ r.op = "delete" /\ r.uid = "guest"
        /\ \E x \in dbRows[t] : x.id = r.id
        /\ \E x \in dbRows[t] : ~x.is_published

\* C5 (SpecManager): after delete(id) has succeeded (the row is gone from the
\* store) and id is out of the cache, the completion of no other delete or
\* list puts id back into the cache.
C5_DeletedStaysOut ==
    [][\A id \in 1..(FirstId + MaxCreates) :
          (id < clock /\ id \notin Ids(projects)
                /\ \A x \in dbRows[tab] : x.id # id)
            => id \notin {projects'[i].id : i \in DOMAIN projects'}]_vars

\* C6 (SpecManager): with an administrator as the single client, whenever no
\* call of the manager is in flight and none has failed, the cache is the
\* store's current records in ascending sort order.
C6_CacheConverges ==
    (managerMounted /\ ProfileIsAdmin(user) /\ inflight = {} /\ allOk)
        => projects \in Ordered(dbRows[tab])

\* C7 (SpecManager): the continuation of a call that failed (list, delete,
\* create or update) leaves the cache as it was.
C7_FailureKeepsCache ==
    [][\A r \in inflight :
          (~r.ok /\ (FetchProjectsResolve(r) \/ HandleDeleteResolve(r)
                        \/ HandleSaveResolve(r)))
            => projects' = projects]_vars

\* A call has failed and the cache still holds what it held.
C7_Witness == managerMounted /\ ~allOk /\ inflight = {} /\ projects # <<>>

\* C8 (SpecStream): a CommentsSection instance has at most one open channel,
\* also after its articleId changed, and none once it is unmounted.
C8_AtMostOneSubscription ==
    /\ OpenChannels <= 1
    /\ ~streamMounted => OpenChannels = 0

\* An instance that was re-pointed and whose fetch failed is torn down.
C8_Witness ==
    /\ ~streamMounted /\ streamInst > 0
    /\ \E r1, r2 \in commentFetches :
          r1.inst = streamInst /\ r2.inst = streamInst
            /\ r1.article # r2.article /\ ~r1.ok

\* C9 (SpecStream): a fetchComments() response that arrives after the
\* instance was unmounted, or after its articleId changed, does not modify
\* the cache.
C9_StaleFetchDiscarded ==
    [][\A r \in commentFetches :
          (FetchCommentsResolve(r)
              /\ (~streamMounted \/ r.inst # streamInst \/ r.article # articleId))
            => comments' = comments]_vars

\* C10 (SpecStream): no step of handleSubmit changes the cache, whatever its
\* outcome; the cache changes only when a notification is delivered, a
\* fetch response is applied, or the instance is mounted or unmounted.
C10_SubmitLeavesCache ==
    [][/\ (HandleSubmit \/ \E r \in commentInserts : HandleSubmitResolve(r))
            => comments' = comments
       /\ comments' # comments
            => \/ \E n \in notifs, again \in BOOLEAN : NotifDeliver(n, again)
               \/ \E r \in commentFetches : FetchCommentsResolve(r)
               \/ \E a \in Articles : StreamMount(a)
               \/ StreamUnmount]_vars

\* A submit has succeeded and its comment is in the store, not in the cache.
C10_Witness ==
    /\ streamMounted /\ streamToast = "sent"
    /\ \E c \in dbComments : c.article_id = articleId /\ c.id \notin Ids(comments)

\* C11 (SpecStream): a comment of the stream's article that was inserted
\* while the stream was active (its notification was merged) is in the cache
\* once nothing is pending: a fetchComments() response whose application
\* leaves no notification and no fetch response on its way does not take
\* such a comment out of the cache.
C11_VisibleOnceDelivered ==
    [][\A r \in commentFetches :
          (FetchCommentsResolve(r) /\ streamMounted
                /\ notifs' = {} /\ commentFetches' = {})
            => \A i \in DOMAIN comments :
                  (/\ comments[i].via = "live"
                   /\ comments[i].article_id = articleId
                   /\ \E c \in dbComments : c.id = comments[i].id)
                    => comments[i].id \in {comments'[j].id : j \in DOMAIN comments'}]_vars

\* C12 (SpecForm): when author_name or content fails commentSchema,
\* handleSubmit sends no insert (the table and the inserts in flight are as
\* before, the submitting flag stays down) and the error map has an entry
\* for each failing field and for no other.
C12_InvalidBlocksInsert ==
    [][(HandleSubmit /\ ~(AuthorNameOk(authorName) /\ ContentOk(content)))
          => /\ dbComments' = dbComments
             /\ commentInserts' = commentInserts
             /\ notifs' = notifs
             /\ ~submitting'
             /\ errors' \subseteq {"author_name", "content"}
             /\ "author_name" \in errors' <=>
                    (Length(Trim(authorName)) < 2 \/ Length(Trim(authorName)) > 50)
             /\ "content" \in errors' <=>
                    (Length(Trim(content)) < 5 \/ Length(Trim(content)) > 1000)]_vars

\* Both typed fields were refused and nothing was sent.
C12_Witness ==
    /\ errors = {"author_name", "content"}
    /\ authorName = Text(1, 0) /\ content = Text(4, 1)
    /\ ~submitting /\ commentInserts = {} /\ dbComments = {}

\* C13 (SpecForm): when the insert of handleSubmit fails, the continuation
\* reports the error, leaves author name and content as they are and takes
\* the submitting flag down; the inputs are emptied by a continuation only
\* when the insert succeeded, and no other step reports an error.
C13_StoreFailureKeepsInput ==
    [][/\ \A r \in commentInserts :
             (HandleSubmitResolve(r) /\ ~r.ok)
                => /\ authorName' = authorName
                   /\ content' = content
                   /\ ~submitting'
                   /\ streamToast' = "error"
       /\ \A r \in commentInserts :
             (HandleSubmitResolve(r) /\ <<authorName', content'>> # <<authorName, content>>)
                => r.ok
       /\ (streamToast' = "error" /\ streamToast # "error")
             => \E r \in commentInserts : HandleSubmitResolve(r) /\ ~r.ok]_vars

\* A valid comment was submitted, the insert failed, and the form still
\* holds what was typed.
C13_Witness ==
    /\ streamToast = "error" /\ ~submitting /\ commentInserts = {}
    /\ authorName = Text(2, 1) /\ content = Text(5, 1)
    /\ dbComments = {}

\* C14 (SpecSchema), as stated: once the form was submitted, content of
\* length < 5 or > 1000 is rejected, author_name of length 2 or 50 is
\* accepted and author_name of length 1 or 51 is rejected (a field is
\* rejected when it has an entry in the error map).
C14_RawBoundaries ==
    (errors # {} \/ submitting) =>
        /\ (Length(content) < 5 \/ Length(content) > 1000) => "content" \in errors
        /\ Length(authorName) \in {2, 50} => "author_name" \notin errors
        /\ Length(authorName) \in {1, 51} => "author_name" \in errors

\* C14 (SpecSchema), amended: the same with every length taken after
\* leading and trailing whitespace is trimmed.
C14_TrimmedBoundaries ==
    (errors # {} \/ submitting) =>
        /\ (Length(Trim(content)) < 5 \/ Length(Trim(content)) > 1000)
              => "content" \in errors
        /\ Length(Trim(authorName)) \in {2, 50} => "author_name" \notin errors
        /\ Length(Trim(authorName)) \in {1, 51} => "author_name" \in errors

\* A name of 51 and a content of 1001 characters, one of them a trailing
\* blank, passed the schema and the insert was sent.
C14_Witness ==
    /\ submitting /\ errors = {}
    /\ authorName = Text(50, 1) /\ content = Text(1000, 1)

\* C15 (SpecGate): whenever the session has resolved to an identity, the
\* management surface is rendered and its manager mounted, whatever the
\* is_admin value of the identity's profile (the identities of the model
\* differ in it), and no redirect is emitted.
C15_LaxGate ==
    (~authLoading /\ user \in Users)
        => (adminView = "panel" /\ managerMounted /\ route = "/admin")

\* An identity whose profile has is_admin = false is shown the panel.
C15_Witness ==
    /\ ~authLoading /\ user \in Users /\ ~dbProfiles[user].is_admin
    /\ adminView = "panel" /\ managerMounted /\ projects # <<>>

\* C16 (SpecGate): while the session is loading the gate shows the loading
\* window, emits no redirect and renders no management content; once the
\* session has resolved, the gate is denied (redirect emitted, management
\* content not rendered) exactly when no identity is present and granted
\* (management content rendered, no redirect) exactly when one is.
C16_GateTransitions ==
    /\ authLoading
          => (adminView = "loading" /\ route = "/admin" /\ ~managerMounted)
    /\ (~authLoading /\ user = NoUser)
          => (route = "/auth" /\ adminView # "panel" /\ ~managerMounted)
    /\ (~authLoading /\ user # NoUser)
          => (route = "/admin" /\ adminView = "panel")

\* C17 (SpecCommentStore): the answer to a select of any identity, the
\* anonymous one included, holds every comment of the article; an insert of
\* any identity for an article of the table is accepted and its row stored; a
\* step in which a comment row disappears is the request of an identity
\* whose profile has is_admin = true.
C17_ReadsAndInsertsOpen ==
    \A r \in inflight :
        /\ r.op = "select" => (r.ok /\ r.data = SelectComments(r.id))
        /\ (r.op = "insert" /\ ArticleExists(r.data[1]))
              => (r.ok /\ \E c \in dbComments : c.id = r.id)

C17_DeletesNeedAdmin ==
    (\E c \in dbComments : \A d \in dbComments' : d.id # c.id)
        => \E r \in inflight' : ProfileIsAdmin(r.uid)

C17_CommentAccessPolicy == [](C17_ReadsAndInsertsOpen) /\ [][C17_DeletesNeedAdmin]_vars

\* The table holds two comments, and the delete of one of them by an
\* identity that is no administrator left the row in place.
C17_Witness ==
    /\ \E r \in inflight :
          /\ r.op = "delete" /\ r.uid = "guest"
          /\ \E c \in dbComments : c.id = r.id
    /\ Cardinality(dbComments) = 2

\* C18 (SpecCommentStore): no request of any identity changes the author
\* name, content, article id or creation time of a comment row: a row that
\* is in the table before and after a step is the same row.
C18_CommentsImmutable ==
    [][\A c \in dbComments : \A d \in dbComments' : d.id = c.id => d = c]_vars

\* The administrator's update of a comment was answered without an error
\* and the row holds its first content.
C18_Witness ==
    \E r \in inflight :
        /\ r.op = "update" /\ r.ok /\ ProfileIsAdmin(r.uid)
        /\ \E c \in dbComments : c.id = r.id /\ c.content = Text(5, 0)

\* C19 (SpecManager): when the list() refresh that follows a successful
\* create is applied, the cache holds the new record (as long as the record
\* has not been deleted from the store since) and is in ascending sort
\* order, which puts the new record at the place its sort order implies.
C19_CreatedRecordInOrder ==
    [][\A r \in inflight :
          (FetchProjectsResolve(r) /\ r.ok /\ r.id # 0
                /\ \E x \in dbRows[tab] : x.id = r.id)
            => /\ \E i \in DOMAIN projects' : projects'[i].id = r.id
               /\ \A i, j \in DOMAIN projects' :
                     i < j => projects'[i].sort_order <= projects'[j].sort_order]_vars

\* The record created with sort order 0 is listed ahead of the seeded
\* record of sort order 1.
C19_Witness ==
    /\ managerMounted /\ inflight = {} /\ allOk
    /\ projects = <<Row(FirstId, 0, FALSE), Row(1, 1, TRUE)>>

\* C20 (SpecGate, where no request changes the store): once a successful
\* list() has filled the cache, applying the response of another successful
\* list() leaves the cache as it is, also when records share a sort order.
C20_ListIdempotent ==
    [][\A r \in inflight :
          (FetchProjectsResolve(r) /\ r.ok /\ projects # <<>>)
            => projects' = projects]_vars

\* C21 (SpecManager): the continuation of a successful create or update
\* puts a list() fetch in flight, and a successful list() response replaces
\* the cache when it is applied; neither step of handleSave changes the
\* cache, which changes only when a successful list() response or a
\* successful delete is applied.
C21_RefreshAfterMutation ==
    [][/\ \A r \in inflight :
             (HandleSaveResolve(r) /\ r.ok)
                => \E n \in inflight' : n.op = "list" /\ n.id = r.id
       /\ \A r \in inflight :
             (FetchProjectsResolve(r) /\ r.ok) => projects' = r.data
       /\ ((\E data \in Drafts : HandleSave(data))
                \/ \E r \in inflight : HandleSaveResolve(r))
             => projects' = projects
       /\ projects' # projects
             => \/ \E r \in inflight : FetchProjectsResolve(r) /\ r.ok
                \/ \E r \in inflight : HandleDeleteResolve(r) /\ r.ok]_vars

\* The seeded record was updated from the form and the refresh that
\* followed has put the updated record into the cache.
C21_Witness ==
    /\ managerMounted /\ inflight = {} /\ allOk
    /\ projects = <<Row(1, 0, FALSE)>>
    /\ dbRows[tab] = {Row(1, 0, FALSE)}

-----------------------------------------------------------------------------
\* ProjectForm and ArticleForm. A text field is its length, except the
\* fields the code looks into: technologies is a sequence of characters,
\* category and the url fields are the strings themselves.

MaxTechLen == 4
Chars == {"a", "b", " ", ","}
TechTexts == UNION {[1..n -> Chars] : n \in 0..MaxTechLen}

\* String.prototype.split(','): the pieces between the commas, the empty
\* ones included; the empty string gives one empty piece.
RECURSIVE SplitComma(_)
SplitComma(s) ==
    IF \A i \in DOMAIN s : s[i] # ","
    THEN <<s>>
    ELSE LET i == CHOOSE k \in DOMAIN s :
                      s[k] = "," /\ \A j \in 1..(k - 1) : s[j] # ","
         IN  <<SubSeq(s, 1, i - 1)>> \o SplitComma(SubSeq(s, i + 1, Len(s)))

\* String.prototype.trim(): leading and trailing blanks are removed.
RECURSIVE TrimChars(_)
TrimChars(s) ==
    IF s = <<>> THEN s
    ELSE IF Head(s) = " " THEN TrimChars(Tail(s))
    ELSE IF s[Len(s)] = " " THEN TrimChars(SubSeq(s, 1, Len(s) - 1))
    ELSE s

NonEmptyToken(t) == Len(t) > 0

\* split(',').map(t => t.trim()), had the filter been left out.
TechnologiesArrayUnfiltered(s) ==
    [i \in DOMAIN SplitComma(s) |-> TrimChars(SplitComma(s)[i])]

\* split(',').map(t => t.trim()).filter(t => t.length > 0)
TechnologiesArray(s) ==
    SelectSeq([i \in DOMAIN SplitComma(s) |-> TrimChars(SplitComma(s)[i])],
              NonEmptyToken)

\* z.string().url().optional().or(z.literal('')) on `field || undefined`.
UrlTexts == {"", "https://a.b", "a.b"}
UrlOk(u) == u = "" \/ u = "https://a.b"

\* The options of the category select.
CATEGORIES == {"Desenvolvimento", "DevOps", "Frontend", "Backend", "Mobile",
               "IA", "Carreira", "Geral"}

\* projectSchema.safeParse(dataToValidate): the fields that fail.
ProjectSchemaErrors(fd, technologiesArray) ==
    {f \in {"title", "description", "icon", "technologies", "demo_url",
            "repo_url", "sort_order"} :
        \/ f = "title" /\ ~(fd.title >= 1 /\ fd.title <= 100)
        \/ f = "description" /\ ~(fd.description >= 1 /\ fd.description <= 500)
        \/ f = "icon" /\ ~(fd.icon >= 1)
        \/ f = "technologies" /\ ~(Len(technologiesArray) >= 1)
        \/ f = "demo_url" /\ ~UrlOk(fd.demo_url)
        \/ f = "repo_url" /\ ~UrlOk(fd.repo_url)
        \/ f = "sort_order" /\ ~(fd.sort_order >= 0)}

\* articleSchema.safeParse(dataToValidate): the fields that fail.
ArticleSchemaErrors(fd) ==
    {f \in {"title", "excerpt", "category", "read_time", "url", "sort_order"} :
        \/ f = "title" /\ ~(fd.title >= 1 /\ fd.title <= 200)
        \/ f = "excerpt" /\ ~(fd.excerpt >= 1 /\ fd.excerpt <= 500)
        \/ f = "category" /\ ~(Len(fd.category) >= 1)
        \/ f = "read_time" /\ ~(fd.read_time >= 1)
        \/ f = "url" /\ ~UrlOk(fd.url)
        \/ f = "sort_order" /\ ~(fd.sort_order >= 0)}

\* The record ProjectForm hands to onSave.
ProjectPayload(fd, technologiesArray) ==
    [title |-> fd.title, description |-> fd.description, icon |-> fd.icon,
     technologies |-> technologiesArray,
     demo_url |-> IF fd.demo_url = "" THEN "null" ELSE fd.demo_url,
     repo_url |-> IF fd.repo_url = "" THEN "null" ELSE fd.repo_url,
     sort_order |-> fd.sort_order, is_published |-> fd.is_published]

\* The record ArticleForm hands to onSave.
ArticlePayload(fd) ==
    [title |-> fd.title, excerpt |-> fd.excerpt, content |-> fd.content,
     category |-> fd.category, read_time |-> fd.read_time,
     url |-> IF fd.url = "" THEN "null" ELSE fd.url,
     sort_order |-> fd.sort_order, is_published |-> fd.is_published]

\* Everything but the errors of the form.
FormFrame ==
    UNCHANGED <<formData, storeVars, streamVars, sessionVars, managerVars, authVars>>

\* ProjectForm.handleSubmit: a form that fails projectSchema shows its
\* errors and returns; otherwise onSave (handleSave of ProjectsManager, up to
\* its await) receives the record.
ProjectFormSubmit ==
    /\ route = "/admin" /\ FormView /\ tab = "projects"
    /\ formData.kind = "project"
    /\ LET technologiesArray == TechnologiesArray(formData.technologies)
           errs == ProjectSchemaErrors(formData, technologiesArray)
       IN  IF errs # {}
           THEN formErrors' = errs /\ FormFrame
           ELSE HandleSave(ProjectPayload(formData, technologiesArray))

\* ArticleForm.handleSubmit: the same with articleSchema and handleSave of
\* ArticlesManager.
ArticleFormSubmit ==
    /\ route = "/admin" /\ FormView /\ tab = "articles"
    /\ formData.kind = "article"
    /\ LET errs == ArticleSchemaErrors(formData)
       IN  IF errs # {}
           THEN formErrors' = errs /\ FormFrame
           ELSE HandleSave(ArticlePayload(formData))

\* The forms as an administrator or a visitor may have filled them.
ProjectForms ==
    [kind : {"project"}, title : {0, 1, 100, 101}, description : {1, 500, 501},
     icon : {0, 2}, technologies : {<<>>, <<"a">>}, demo_url : UrlTexts,
     repo_url : {""}, sort_order : {-1, 0}, is_published : BOOLEAN]

\* A category outside the select's options is the one of the record being
\* edited (articles.category is TEXT without a constraint).
ArticleForms ==
    [kind : {"article"}, title : {0, 1, 200, 201}, excerpt : {1, 500, 501},
     content : {0, 1}, category : {"Geral", "IA", "Tutorial"},
     read_time : {0, 5}, url : UrlTexts, sort_order : {0},
     is_published : {TRUE}]

\* A manager with its list loaded and its form open, on a new record or on
\* the listed one, filled as fd.
InitFormOpen(t, fd) ==
    /\ InitStore({Row(1, 1, TRUE)})
    /\ InitStream
    /\ authLoading = FALSE
    /\ user \in Users
    /\ route = "/admin"
    /\ adminView = AdminRender(FALSE, user)
    /\ tab = t
    /\ managerMounted = TRUE
    /\ projects = <<Row(1, 1, TRUE)>>
    /\ managerLoading = FALSE
    /\ \/ isCreating = TRUE /\ editingProject = NoProject
       \/ isCreating = FALSE /\ editingProject = Row(1, 1, TRUE)
    /\ inflight = {}
    /\ allOk = TRUE
    /\ formData = fd
    /\ formErrors = {}
    /\ InitAuthForm

InitEntryForms ==
    \/ \E fd \in ProjectForms : InitFormOpen("projects", fd)
    \/ \E fd \in ArticleForms :
          /\ InitFormOpen("articles", fd)
          /\ fd.category \notin CATEGORIES => ~isCreating

NextEntryForms ==
    \/ ProjectFormSubmit
    \/ ArticleFormSubmit
    \/ \E resp \in inflight : HandleSaveResolve(resp)
    \/ \E resp \in inflight : FetchProjectsResolve(resp)

SpecEntryForms == InitEntryForms /\ [][NextEntryForms]_vars

-----------------------------------------------------------------------------
\* The Auth page. A password is its length.

EmailTexts == {"", "user", "user@site.dev"}
PasswordLengths == {0, 5, 6}

\* z.string().email()
EmailOk(e) == e = "user@site.dev"

\* authSchema.safeParse({ email, password }): the message of the first issue,
\* "none" when the input passes.
AuthSchemaError(e, p) ==
    IF ~EmailOk(e) THEN "Email invalido"
    ELSE IF ~(p >= 6) THEN "Senha curta"
    ELSE "none"

\* What signIn / signUp of the session manager may answer.
AuthOutcomes(op) ==
    IF op = "signIn"
    THEN {"ok", "invalid-credentials", "network-failure"}
    ELSE {"ok", "already-registered", "network-failure"}

AuthCall(op, e, p, outcome) ==
    [op |-> op, email |-> e, password |-> p, outcome |-> outcome]

AuthPage == route = "/auth" /\ user = NoUser

AuthFrame == UNCHANGED <<storeVars, streamVars, managerVars, formVars>>

\* onChange of the two inputs.
AuthSetInputs(e, p) ==
    /\ AuthPage
    /\ email' = e /\ password' = p
    /\ UNCHANGED <<isLogin, authError, authFormLoading, authCalls, sessionVars>>
    /\ AuthFrame

\* The link under the form: setIsLogin(!isLogin).
AuthToggle ==
    /\ AuthPage
    /\ isLogin' = ~isLogin
    /\ UNCHANGED <<email, password, authError, authFormLoading, authCalls,
                   sessionVars>>
    /\ AuthFrame

\* Auth.handleSubmit, had it gone on after the failed validation.
AuthHandleSubmitNoReturn ==
    /\ AuthPage /\ ~authFormLoading
    /\ authError' = "none"
    /\ authFormLoading' = TRUE
    /\ \E outcome \in AuthOutcomes(IF isLogin THEN "signIn" ELSE "signUp") :
           authCalls' = authCalls \cup
               {AuthCall(IF isLogin THEN "signIn" ELSE "signUp",
                         email, password, outcome)}
    /\ UNCHANGED <<email, password, isLogin, sessionVars>>
    /\ AuthFrame

\* Auth.handleSubmit up to its await; the submit button is disabled while
\* loading. An input that fails authSchema shows the first message and
\* returns with loading cleared.
AuthHandleSubmit ==
    /\ AuthPage /\ ~authFormLoading
    /\ IF AuthSchemaError(email, password) # "none"
       THEN /\ authError' = AuthSchemaError(email, password)
            /\ authFormLoading' = FALSE
            /\ UNCHANGED authCalls
       ELSE /\ authError' = "none"
            /\ authFormLoading' = TRUE
            /\ \E outcome \in AuthOutcomes(IF isLogin THEN "signIn" ELSE "signUp") :
                   authCalls' = authCalls \cup
                       {AuthCall(IF isLogin THEN "signIn" ELSE "signUp",
                                 email, password, outcome)}
    /\ UNCHANGED <<email, password, isLogin, sessionVars>>
    /\ AuthFrame

\* Auth.handleSubmit after its await, had the finally block been left out.
AuthHandleSubmitResolveNoFinally(c, u) ==
    /\ c \in authCalls
    /\ route = "/auth"
    /\ authCalls' = authCalls \ {c}
    /\ authError' = IF c.outcome = "ok" THEN authError ELSE c.outcome
    /\ UNCHANGED <<authFormLoading, isLogin, email, password, sessionVars>>
    /\ AuthFrame

\* Auth.handleSubmit after its await: a failure shows its message; a
\* sign-up that succeeded switches the form to sign-in; a sign-in that
\* succeeded makes u the identity of the session and the effect of the page
\* navigates to /admin. Loading is cleared in every case.
AuthHandleSubmitResolve(c, u) ==
    /\ c \in authCalls
    /\ route = "/auth"
    /\ authCalls' = authCalls \ {c}
    /\ authFormLoading' = FALSE
    /\ IF c.outcome # "ok"
       THEN /\ authError' = c.outcome
            /\ UNCHANGED <<isLogin, sessionVars>>
       ELSE IF c.op = "signUp"
       THEN /\ authError' = "none"
            /\ isLogin' = TRUE
            /\ UNCHANGED sessionVars
       ELSE /\ user' = u
            /\ route' = "/admin"
            /\ UNCHANGED <<authError, isLogin, authLoading, adminView>>
    /\ UNCHANGED <<email, password>>
    /\ AuthFrame

InitAuthPage ==
    /\ InitStore({Row(1, 1, TRUE)})
    /\ InitStream
    /\ InitManager
    /\ InitEntryForm
    /\ authLoading = FALSE
    /\ user = NoUser
    /\ route = "/auth"
    /\ adminView = "none"
    /\ InitAuthForm

NextAuthPage ==
    \/ \E e \in EmailTexts, p \in PasswordLengths : AuthSetInputs(e, p)
    \/ AuthToggle
    \/ AuthHandleSubmit
    \/ \E c \in authCalls, u \in Users : AuthHandleSubmitResolve(c, u)

\* The pages that validate what is typed before they call anything: an
\* entity form of a manager, or the Auth page.
InitValidation == InitEntryForms \/ InitAuthPage

NextValidation == NextEntryForms \/ NextAuthPage

SpecValidation == InitValidation /\ [][NextValidation]_vars

\* C22: validation errors never reach the store. A project or article form
\* that fails its schema sends no insert or update: the step of handleSubmit
\* leaves the store and the calls in flight alone, and every save call in
\* flight carries a record that passes the schema. An Auth form whose email
\* is not an email or whose password is shorter than 6 sends no sign-in or
\* sign-up: the step leaves the calls alone, and every call in flight
\* carries a valid email and a password of at least 6.
C22_ValidationBlocksStore ==
    /\ [][/\ (ProjectFormSubmit
                /\ ProjectSchemaErrors(formData,
                       TechnologiesArray(formData.technologies)) # {})
                => UNCHANGED <<storeVars, inflight>>
          /\ (ArticleFormSubmit /\ ArticleSchemaErrors(formData) # {})
                => UNCHANGED <<storeVars, inflight>>
          /\ (AuthHandleSubmit /\ (~EmailOk(email) \/ password < 6))
                => UNCHANGED <<storeVars, authCalls, sessionVars>>]_vars
    /\ [](\A r \in inflight : r.op = "save" =>
             IF tab = "projects"
             THEN /\ r.data[1].title \in 1..100
                  /\ r.data[1].description \in 1..500
                  /\ r.data[1].icon >= 1
                  /\ r.data[1].technologies # <<>>
                  /\ r.data[1].demo_url # "a.b"
                  /\ r.data[1].sort_order >= 0
             ELSE /\ r.data[1].title \in 1..200
                  /\ r.data[1].excerpt \in 1..500
                  /\ r.data[1].read_time >= 1
                  /\ r.data[1].url # "a.b")
    /\ [](\A c \in authCalls : c.email = "user@site.dev" /\ c.password >= 6)

\* A project form that failed its schema shows its errors with nothing sent.
C22_Witness ==
    /\ formData.kind = "project" /\ formData.title = 0
    /\ formErrors = {"title", "technologies"}
    /\ inflight = {} /\ dbRows["projects"] = {Row(1, 1, TRUE)}

-----------------------------------------------------------------------------
\* The project form with every field valid but the technologies, which are
\* any text of at most MaxTechLen characters.
InitTechnologies ==
    \E t \in TechTexts :
        InitFormOpen("projects",
                     [kind |-> "project", title |-> 1, description |-> 1,
                      icon |-> 2, technologies |-> t, demo_url |-> "",
                      repo_url |-> "", sort_order |-> 0, is_published |-> TRUE])

NextTechnologies ==
    \/ ProjectFormSubmit
    \/ \E resp \in inflight : HandleSaveResolve(resp)
    \/ \E resp \in inflight : FetchProjectsResolve(resp)

SpecTechnologies == InitTechnologies /\ [][NextTechnologies]_vars

\* The characters of s that are neither a comma nor a blank, in order.
RECURSIVE Letters(_)
Letters(s) ==
    IF s = <<>> THEN <<>>
    ELSE IF Head(s) \in {",", " "} THEN Letters(Tail(s))
    ELSE <<Head(s)>> \o Letters(Tail(s))

RECURSIVE Flatten(_)
Flatten(ss) == IF ss = <<>> THEN <<>> ELSE Head(ss) \o Flatten(Tail(ss))

\* Positions i, j of s lie between the same two commas.
SamePiece(s, i, j) == \A k \in i..j : s[k] # ","

\* The positions where a token of s starts: a letter with only blanks before
\* it in its piece.
TokenStarts(s) ==
    {i \in DOMAIN s :
        /\ s[i] \notin {",", " "}
        /\ \A j \in 1..(i - 1) : SamePiece(s, j, i) => s[j] = " "}

\* The positions where a token of s ends: a letter with only blanks after it
\* in its piece.
TokenEnds(s) ==
    {i \in DOMAIN s :
        /\ s[i] \notin {",", " "}
        /\ \A j \in (i + 1)..Len(s) : SamePiece(s, i, j) => s[j] = " "}

\* The tokens of s read off its positions: the n-th token runs from the
\* n-th start to the n-th end.
NthOf(S, n) == CHOOSE i \in S : Cardinality({j \in S : j < i}) = n - 1

ExpectedTokens(s) ==
    [n \in 1..Cardinality(TokenStarts(s)) |->
        SubSeq(s, NthOf(TokenStarts(s), n), NthOf(TokenEnds(s), n))]

\* C24: the technologies sent with a save are the comma-separated tokens of
\* the text in the form, in the order of the text, each without blanks at
\* its ends, none empty; a form whose text has no token is rejected with an
\* error on the field and sends nothing, a form with a token is sent.
C24_TechnologiesParsed ==
    /\ [](\A r \in inflight : r.op = "save" =>
             /\ r.data[1].technologies = ExpectedTokens(formData.technologies)
             /\ r.data[1].technologies # <<>>
             /\ \A i \in DOMAIN r.data[1].technologies :
                   LET t == r.data[1].technologies[i]
                   IN  /\ t # <<>>
                       /\ Head(t) # " " /\ t[Len(t)] # " "
                       /\ \A k \in DOMAIN t : t[k] # ","
             /\ Letters(Flatten(r.data[1].technologies))
                    = Letters(formData.technologies))
    /\ [][ProjectFormSubmit =>
             IF Letters(formData.technologies) = <<>>
             THEN /\ UNCHANGED <<storeVars, inflight>>
                  /\ "technologies" \in formErrors'
             ELSE \E r \in inflight' \ inflight : r.op = "save"]_vars

\* "a, b" was submitted and the call carries <<"a", "b">>.
C24_Witness ==
    /\ formData.technologies = <<"a", ",", " ", "b">>
    /\ \E r \in inflight :
          r.op = "save" /\ r.data[1].technologies = << <<"a">>, <<"b">> >>

\* A text of blanks and commas was submitted and rejected.
C24_WitnessRejected ==
    /\ formData.technologies = <<" ", ",", " ">>
    /\ formErrors = {"technologies"}
    /\ inflight = {}

\* C25: every record an article form sends to the store, for a create or for
\* an update, has a category among CATEGORIES (the validator lets a draft
\* through only then).
C25_CategoryInEnumeration ==
    \A r \in inflight :
        (r.op = "save" /\ tab = "articles") => r.data[1].category \in CATEGORIES

-----------------------------------------------------------------------------
\* The pages whose operations may fail: a manager from its mount on, an
\* article page with its comment form, or the Auth page.
InitRecovery == InitManaging \/ InitForm \/ InitAuthPage

NextRecovery == NextManager \/ NextForm \/ NextAuthPage

SpecRecovery == InitRecovery /\ [][NextRecovery]_vars

\* C26: after a failed operation the same action can be taken again. A save
\* that failed leaves the edit target and the create mode as they were (the
\* form stays open on the same record); a comment submit that failed clears
\* `submitting`; an auth submit that failed, in validation or at the session
\* manager, clears `loading` and stays on the Auth page; a list that failed
\* leaves the manager out of the loading state.
C26_FailureLeavesRetry ==
    [][/\ \A r \in inflight :
             (HandleSaveResolve(r) /\ ~r.ok)
                => /\ UNCHANGED <<editingProject, isCreating, managerLoading>>
                   /\ FormView => FormView'
       /\ \A r \in commentInserts :
             (HandleSubmitResolve(r) /\ ~r.ok /\ streamMounted
                 /\ r.inst = streamInst)
                => ~submitting'
       /\ (AuthHandleSubmit /\ AuthSchemaError(email, password) # "none")
             => ~authFormLoading' /\ AuthPage'
       /\ \A c \in authCalls, u \in Users :
             (AuthHandleSubmitResolve(c, u) /\ c.outcome # "ok")
                => ~authFormLoading' /\ AuthPage' /\ authError' = c.outcome
       /\ \A r \in inflight :
             (FetchProjectsResolve(r) /\ ~r.ok) => ~managerLoading']_vars

\* A sign-in was refused and the form can be submitted again.
C26_Witness ==
    /\ route = "/auth" /\ authError = "invalid-credentials"
    /\ ~authFormLoading /\ authCalls = {}
    /\ email = "user@site.dev" /\ password = 6

-----------------------------------------------------------------------------
\* The table profiles on its own, with the trigger that fills it.

\* An identity that has not signed up yet.
Newcomers == {"newcomer"}

\* Row-level policies of profiles: "Users can view their own profile" and
\* "Admins can view all profiles" (FOR SELECT), "Users can update their own
\* profile" (FOR UPDATE, USING auth.uid() = id, any column). No policy is
\* FOR INSERT or FOR DELETE.
PermitsProfile(cmd, uid, id) ==
    \/ cmd = "SELECT" /\ (uid = id \/ IsAdmin(uid))
    \/ cmd = "UPDATE" /\ uid = id

\* auth.users gets a row: on_auth_user_created inserts the profile with
\* is_admin = false.
SignUp(uid) ==
    /\ uid \notin DOMAIN dbProfiles
    /\ dbProfiles' = [u \in DOMAIN dbProfiles \cup {uid} |->
                         IF u = uid THEN [is_admin |-> FALSE] ELSE dbProfiles[u]]
    /\ inflight' = {Resp("signUp", TRUE, uid, <<>>, 0, <<>>)}
    /\ UNCHANGED <<dbComments, dbRows, clock, streamVars, sessionVars, tab,
                   managerMounted, projects, managerLoading, editingProject,
                   isCreating, allOk, formVars, authVars>>

\* from('profiles').select(): the rows the policies show to uid.
ProfileSelect(uid) ==
    /\ inflight' = {Resp("profiles", TRUE, uid,
                         <<{id \in DOMAIN dbProfiles :
                               PermitsProfile("SELECT", uid, id)}>>, 0, <<>>)}
    /\ UNCHANGED <<storeVars, streamVars, sessionVars, tab, managerMounted,
                   projects, managerLoading, editingProject, isCreating, allOk,
                   formVars, authVars>>

\* from('profiles').update({ is_admin: flag }).eq('id', id) sent by uid: a
\* row the policies do not give to uid is skipped without an error.
ProfileUpdate(uid, id, flag) ==
    /\ id \in DOMAIN dbProfiles
    /\ dbProfiles' = IF PermitsProfile("UPDATE", uid, id)
                     THEN [dbProfiles EXCEPT ![id] = [is_admin |-> flag]]
                     ELSE dbProfiles
    /\ inflight' = {Resp("profile", TRUE, uid, <<>>, 0, <<>>)}
    /\ UNCHANGED <<dbComments, dbRows, clock, streamVars, sessionVars, tab,
                   managerMounted, projects, managerLoading, editingProject,
                   isCreating, allOk, formVars, authVars>>

InitProfiles == InitStoreOnly

NextProfiles ==
    \/ \E uid \in Newcomers : SignUp(uid)
    \/ \E uid \in Users \cup Newcomers \cup {NoUser} : ProfileSelect(uid)
    \/ \E uid \in Users \cup Newcomers \cup {NoUser}, flag \in BOOLEAN :
          \E id \in DOMAIN dbProfiles : ProfileUpdate(uid, id, flag)
    \/ \E t \in Tables, uid \in Users \cup Newcomers, data \in Drafts :
          StoreInsert(t, uid, data)

SpecProfiles == InitProfiles /\ [][NextProfiles]_vars

\* C27: no self-promotion. A request sent by an identity whose profile has
\* is_admin = false (or that has no profile yet) leaves that identity without
\* is_admin = true, so that it never comes to write projects or articles.
C27_NoSelfPromotion ==
    [][\A r \in inflight' :
          ~IsAdmin(r.uid)
             => ~(r.uid \in DOMAIN dbProfiles' /\ dbProfiles'[r.uid].is_admin)]_vars

\* C28: while a stream is mounted its cache is ordered newest first: no
\* entry comes before an entry created later, whatever the order in which
\* fetch responses and notifications arrive.
C28_CacheNewestFirst ==
    streamMounted =>
        \A i, j \in DOMAIN comments :
            i < j => comments[i].created_at >= comments[j].created_at

\* C29: every comment of the table names an article of the table; the step
\* that removes an article leaves no comment of it; an insert for an article
\* id that is not in the table is refused and stores nothing.
C29_CommentsReferToArticles ==
    /\ [](\A c \in dbComments : ArticleExists(c.article_id))
    /\ [][/\ \A x \in dbRows["articles"] :
                (\A y \in dbRows'["articles"] : y.id # x.id)
                   => \A c \in dbComments' : c.article_id # x.id
          /\ \A r \in inflight' :
                (r.op = "insert" /\ ~ArticleExists(r.data[1]))
                   => ~r.ok /\ dbComments' = dbComments]_vars

\* Article 1 was deleted while article 2 keeps a comment, and an insert for
\* article 1 was refused.
C29_Witness ==
    /\ ~ArticleExists(1)
    /\ \E c \in dbComments : c.article_id = 2
    /\ \E r \in inflight : r.op = "insert" /\ ~r.ok /\ r.data[1] = 1

\* C30: a mounted manager never has create mode and an edit target set
\* together. A save with an edit target is an update of that record alone:
\* no row is added or removed, every other row stays as it is, and the
\* record, if the store holds it and the identity is an administrator, takes
\* the values sent. A save without an edit target is an insert: accepted, it
\* adds one row and touches no other. A save that succeeded, and a cancel,
\* clear both; a save that failed changes neither.
C30_ModeExclusive ==
    /\ [](managerMounted => ~(isCreating /\ editingProject # NoProject))
    /\ [][/\ \A data \in Drafts :
                HandleSave(data) =>
                   IF editingProject # NoProject
                   THEN /\ clock' = clock
                        /\ {x.id : x \in dbRows'[tab]} = {x.id : x \in dbRows[tab]}
                        /\ \A x \in dbRows[tab] :
                              x.id # editingProject.id => x \in dbRows'[tab]
                        /\ (IsAdmin(user) /\ \E r \in inflight' \ inflight : r.ok)
                              => \A x \in dbRows'[tab] :
                                    x.id = editingProject.id
                                       => x = Row(x.id, data.sort_order,
                                                  data.is_published)
                   ELSE /\ dbRows[tab] \subseteq dbRows'[tab]
                        /\ (\E r \in inflight' \ inflight : r.ok)
                              => dbRows'[tab] \ dbRows[tab]
                                    = {Row(clock, data.sort_order, data.is_published)}
                        /\ (\E r \in inflight' \ inflight : ~r.ok)
                              => dbRows' = dbRows
          /\ \A r \in inflight :
                HandleSaveResolve(r) =>
                   IF r.ok THEN editingProject' = NoProject /\ ~isCreating'
                   ELSE UNCHANGED <<editingProject, isCreating>>
          /\ CancelForm => (editingProject' = NoProject /\ ~isCreating')]_vars

\* Record 1 is open for editing beside a record created before; its update
\* was sent and only record 1 has changed.
C30_Witness ==
    /\ editingProject = Row(1, 1, TRUE) /\ ~isCreating
    /\ \E r \in inflight : r.op = "save" /\ r.ok /\ r.id = 0
    /\ dbRows[tab] = {Row(1, 0, FALSE), Row(FirstId, 0, FALSE)}
    /\ user = "owner"

====
